---- MODULE Spec2Model ----
(***************************************************************************)
(* A model of ajaxify.js (src/ajaxify.js): the two content targets (the    *)
(* bootstrap modal and the inline panel), the fragment extractor           *)
(* parseBody, the response handler openResponse, form interception         *)
(* (handleAjaxSubmit) and the delegated click/submit handler ajaxify.      *)
(*                                                                         *)
(* Markup is modelled as text: a response is a sequence of tag tokens, and *)
(* DOM content is kept as the token sequence of each element (its outer    *)
(* HTML).  One JavaScript callback (an event handler, an ajax completion,  *)
(* a timer) runs to completion and is one action.                          *)
(***************************************************************************)
EXTENDS Integers, Sequences, FiniteSets, TLC

(***************************************************************************)
(* Bounds of the model.                                                    *)
(***************************************************************************)
MaxKids == 1
MaxBodyKids == 2
MaxOpens == 3
MaxCloses == 1

(***************************************************************************)
(* JavaScript values: an absent attribute reads as undefined, and          *)
(* undefined and the empty string are both falsy.                          *)
(***************************************************************************)
Undef == "undefined"
Truthy(x) == x \notin {Undef, ""}

(***************************************************************************)
(* Markup.  A document is built from element nodes; Serialize writes it as *)
(* the response text, a sequence of tokens.                                *)
(***************************************************************************)
Node(tag, id, cls, action, method, kids) ==
    [tag |-> tag, id |-> id, cls |-> cls, action |-> action,
     method |-> method, kids |-> kids]
El(tag, id, kids) == Node(tag, id, "", "", "", kids)
\* A text node; its id field holds the text.
TextNode(text) == Node("#text", text, "", "", "", <<>>)

Tok(k, n) == [k |-> k, tag |-> n.tag, id |-> n.id, cls |-> n.cls,
              action |-> n.action, method |-> n.method]
OpenBody  == Tok("open", El("body", "", <<>>))
CloseBody == Tok("close", El("body", "", <<>>))

RECURSIVE Serialize(_)
RECURSIVE SerializeAll(_)
Serialize(n) ==
    IF n.tag = "#text" THEN <<Tok("text", n)>>
    ELSE <<Tok("open", n)>> \o SerializeAll(n.kids)
         \o <<[Tok("close", n) EXCEPT !.id = "", !.cls = "",
                                      !.action = "", !.method = ""]>>
SerializeAll(ns) ==
    IF ns = <<>> THEN <<>> ELSE Serialize(Head(ns)) \o SerializeAll(Tail(ns))

\* A page: markup before the body section, the body section (if any) and
\* its content.  Without a body section the content is sent bare.
Page(pre, hasBody, body) == [pre |-> pre, hasBody |-> hasBody, body |-> body]
PageText(d) ==
    SerializeAll(d.pre)
    \o (IF d.hasBody THEN <<OpenBody>> ELSE <<>>)
    \o SerializeAll(d.body)
    \o (IF d.hasBody THEN <<CloseBody>> ELSE <<>>)
(***************************************************************************)
(* The DOM as jQuery sees it, on token sequences.                          *)
(***************************************************************************)
RECURSIVE SortedSeq(_)
SortedSeq(S) ==
    IF S = {} THEN <<>>
    ELSE LET m == CHOOSE x \in S : \A y \in S : x <= y
         IN <<m>> \o SortedSeq(S \ {m})

RECURSIVE Concat(_)
Concat(ss) == IF ss = <<>> THEN <<>> ELSE Head(ss) \o Concat(Tail(ss))

\* The index of the end tag of the element opened before j, at depth d; an
\* element left open ends with the text.
RECURSIVE CloseOf(_, _, _)
CloseOf(s, j, d) ==
    IF j > Len(s) THEN Len(s)
    ELSE IF s[j].k = "open" THEN CloseOf(s, j + 1, d + 1)
    ELSE IF s[j].k = "close"
         THEN (IF d = 1 THEN j ELSE CloseOf(s, j + 1, d - 1))
    ELSE CloseOf(s, j + 1, d)
MatchEnd(s, i) == IF s[i].k = "open" THEN CloseOf(s, i + 1, 1) ELSE i
ElementAt(s, i) == SubSeq(s, i, MatchEnd(s, i))

DepthAt(s, lo, i) ==
    Cardinality({j \in lo..(i - 1) : s[j].k = "open"})
    - Cardinality({j \in lo..(i - 1) : s[j].k = "close"})
\* .children(): the element children (text nodes are no elements) of the
\* range lo..hi.
TopStarts(s, lo, hi) ==
    {i \in lo..hi : s[i].k = "open" /\ DepthAt(s, lo, i) = 0}
ChildStarts(s, i) == TopStarts(s, i + 1, MatchEnd(s, i) - 1)
ElementsAt(s, starts) ==
    LET idx == SortedSeq(starts)
    IN [n \in 1..Len(idx) |-> ElementAt(s, idx[n])]
\* The top-level elements of a forest, in document order.
Children(s) == ElementsAt(s, TopStarts(s, 1, Len(s)))

\* A simple selector: a tag name, .class or #id.
SelectorMatches(sel, t) ==
    \/ sel = t.tag
    \/ t.cls # "" /\ sel = "." \o t.cls
    \/ t.id # "" /\ sel = "#" \o t.id
\* .find(sel): the start indices of the matching descendants.
Find(s, sel) == {i \in 1..Len(s) : s[i].k = "open" /\ SelectorMatches(sel, s[i])}

\* $('<div>').append(html): the HTML parser, building content for a div,
\* ignores the body start and end tags; what they enclose becomes the div's
\* content.
IsBodyTag(t) == t.k \in {"open", "close"} /\ t.tag = "body"
ParseHTML(s) == SelectSeq(s, LAMBDA t : ~IsBodyTag(t))

\* responseText.match(/<body[^>]*>[\s\S]*<\/body>/gi)[0]: from the first
\* body start tag that has a body end tag after it, greedily to the last
\* body end tag.  <<>> stands for null (a match is never empty).
BodyMatch(s) ==
    LET ends == {j \in 1..Len(s) : s[j].k = "close" /\ s[j].tag = "body"}
        starts == {i \in 1..Len(s) : /\ s[i].k = "open" /\ s[i].tag = "body"
                                     /\ \E j \in ends : j > i}
    IN IF starts = {} THEN <<>>
       ELSE SubSeq(s, CHOOSE i \in starts : \A x \in starts : i <= x,
                      CHOOSE j \in ends : \A y \in ends : y <= j)

\* The extractor's result: undefined, or a jQuery set of elements.
Undefined == [undef |-> TRUE, nodes |-> <<>>]
JQ(nodes) == [undef |-> FALSE, nodes |-> nodes]

\* parseBody without the search for main: the whole body unless a selector
\* is given.
parseBody_NoMain(responseText, contentSelector) ==
    LET bodyMatch == BodyMatch(responseText)
        body == ParseHTML(bodyMatch)
    IN IF bodyMatch = <<>> THEN Undefined
       ELSE IF Truthy(contentSelector)
            THEN JQ(ElementsAt(body,
                     UNION {ChildStarts(body, i) : i \in Find(body, contentSelector)}))
       ELSE JQ(Children(body))

parseBody(responseText, contentSelector) ==
    LET bodyMatch == BodyMatch(responseText)
        body == ParseHTML(bodyMatch)
        main == Find(body, "main")
    IN IF bodyMatch = <<>> THEN Undefined
       ELSE IF Truthy(contentSelector)
            THEN JQ(ElementsAt(body,
                     UNION {ChildStarts(body, i) : i \in Find(body, contentSelector)}))
       ELSE IF Cardinality(main) = 1
            THEN JQ(ElementsAt(body, UNION {ChildStarts(body, i) : i \in main}))
       ELSE JQ(Children(body))
(***************************************************************************)
(* The page the script runs in.                                            *)
(***************************************************************************)
Containers == {"c1", "c2"}
ContainerAttrs == [c1 |-> [id |-> "c1", cls |-> "box"],
                   c2 |-> [id |-> "c2", cls |-> "box"]]
\* $(selector): the containers of the page a selector matches.
Resolve(sel) ==
    {c \in Containers : \/ sel = "#" \o ContainerAttrs[c].id
                        \/ sel = "." \o ContainerAttrs[c].cls}

Targets == {"modal", "panel"}

VARIABLES
    bootstrapVersion, \* major version of the styling library, or Undef
    page,             \* the elements of the page with the class ajaxify
    site,             \* the responses the server gives
    modalTarget,      \* the memoized overlay target and its DOM
    panelTarget,      \* the memoized inline target and its content node
    kids,             \* the children of each container, in order
    ccls,             \* the classes of each container
    bind,             \* the submit handlers bound on each target's content
    args,             \* the args records some pending callback still holds
    events,           \* events[a]: the events fired so far with args record a
    requests,         \* the ajax requests in flight
    timers,           \* the pending setTimeout callbacks of the panel's hide,
                      \* in the order they were set
    counts,           \* objects constructed, overlay elements, opens and
                      \* closes begun, closed events fired
    last,             \* what the last callback did
    exPc, exPage, exSel, exOut \* the extractor applied to one input

vars == <<bootstrapVersion, page, site, modalTarget, panelTarget, kids, ccls, bind, args,
          events, requests, timers, counts, last,
          exPc, exPage, exSel, exOut>>
sysVars == <<bootstrapVersion, page, site, modalTarget, panelTarget, kids, ccls, bind,
             args, events, requests, timers, counts, last>>
exVars == <<exPc, exPage, exSel, exOut>>

Range(f) == {f[i] : i \in DOMAIN f}

\* The program state as one value, threaded through the statements of a
\* callback.
Cur == [bootstrapVersion |-> bootstrapVersion, modalTarget |-> modalTarget,
        panelTarget |-> panelTarget, kids |-> kids, ccls |-> ccls,
        bind |-> bind, args |-> args, events |-> events, requests |-> requests,
        timers |-> timers, counts |-> counts, last |-> last]
Commit(S) ==
    /\ bootstrapVersion' = S.bootstrapVersion
    /\ UNCHANGED <<page, site>>
    /\ modalTarget' = S.modalTarget
    /\ panelTarget' = S.panelTarget
    /\ kids' = S.kids
    /\ ccls' = S.ccls
    /\ bind' = S.bind
    /\ args' = S.args
    /\ events' = S.events
    /\ requests' = S.requests
    /\ timers' = S.timers
    /\ counts' = S.counts
    /\ last' = S.last
    /\ UNCHANGED exVars

NoSettings == [title |-> Undef, size |-> Undef, contentSelector |-> Undef,
               handleFormSubmit |-> FALSE, targetContainerSelector |-> Undef]
NoBind == [mode |-> "none", target |-> Undef, settings |-> NoSettings]
NoResponse == [status |-> 0, statusText |-> "", responseText |-> <<>>]
\* What a callback did: the event's element (el) or the content form
\* submitted (form), the args record it ran for (a), the response it got,
\* the target getTarget gave it, whether the event's default was prevented
\* and its propagation stopped, whether an exception left the callback, the
\* target methods called, the errors logged, the requests issued, the
\* events fired with no args, and (trace) the events fired and requests
\* issued, with their args, in the order the callback made them.
NoForm == [t |-> Undef, action |-> "", method |-> "", intercepted |-> FALSE]
NoLast == [op |-> "init", el |-> Undef, tag |-> Undef, form |-> NoForm,
           a |-> 0, response |-> NoResponse, resolved |-> Undef,
           prevented |-> FALSE, stopped |-> FALSE, threw |-> FALSE,
           calls |-> <<>>, log |-> <<>>, issued |-> <<>>, undefEvents |-> <<>>,
           trace |-> <<>>]
\* The args records a pending callback holds: the complete callback of a
\* request, the timer callback of a hide.  No other code can reach a record
\* once the callback it was made in has returned.
Held(S) == {r.a : r \in S.requests} \cup Range(S.timers)
Restrict(f, D) == [x \in D |-> f[x]]
\* A callback starts: nothing is known of it yet, and the records no one
\* holds are gone.
Begin(S, op) ==
    [S EXCEPT !.last = [NoLast EXCEPT !.op = op],
              !.args = Restrict(@, Held(S)),
              !.events = Restrict(@, Held(S))]

\* $('body').trigger(name, args); a = 0 stands for args being undefined.
\* The closed events fired for each target are counted.
Trigger(S, name, a) ==
    IF a = 0 THEN [S EXCEPT !.last.undefEvents = Append(@, name),
                            !.last.trace = Append(@, <<name, a>>)]
    ELSE [S EXCEPT !.events[a] = Append(@, name),
                   !.last.trace = Append(@, <<name, a>>),
                   !.counts.closed[S.args[a].target] =
                       IF name = "closed" THEN @ + 1 ELSE @]
Call(S, t, op) == [S EXCEPT !.last.calls = Append(@, <<t, op>>)]
ConsoleError(S, msg) == [S EXCEPT !.last.log = Append(@, msg)]
\* A new args record: an object of its own, named by a number not in use.
FreshArgs(S) == CHOOSE a \in 1..(Cardinality(DOMAIN S.args) + 1) : a \notin DOMAIN S.args
NewArgs(S, rec) ==
    [S EXCEPT !.args = (FreshArgs(S) :> rec) @@ @,
              !.events = (FreshArgs(S) :> <<>>) @@ @,
              !.counts.opens = IF rec.kind = "open" THEN @ + 1 ELSE @]
OpenArgs(url, target, settings) ==
    [kind |-> "open", url |-> url, target |-> target, settings |-> settings]
CloseArgs(target) ==
    [kind |-> "close", url |-> Undef, target |-> target, settings |-> NoSettings]

(***************************************************************************)
(* The overlay target (createModalTarget).                                 *)
(***************************************************************************)
NoModal == [created |-> FALSE, header |-> <<>>, body |-> <<>>,
            dialogCls |-> {}, shown |-> FALSE, hiddenPending |-> 0]

createModalCloseButton(version) ==
    IF version \in {"3", "4"}
    THEN [item |-> "button", v |-> "close"]
    ELSE [item |-> "button", v |-> "btn-close"]

\* Creation that goes on without a version (the close button of version 5).
createModalTarget_NoVersionCheck(S) ==
    [S |-> [S EXCEPT
              !.modalTarget =
                  [NoModal EXCEPT
                     !.created = TRUE,
                     !.header = <<createModalCloseButton(S.bootstrapVersion)>>],
              !.counts.modalObjs = @ + 1,
              !.counts.modalElems = @ + 1],
     thrown |-> FALSE]

\* Throws (thrown |-> TRUE) when the version cannot be identified; else
\* builds the modal, appends it to the body and returns the target.
createModalTarget(S) ==
    IF ~Truthy(S.bootstrapVersion)
    THEN [S |-> S, thrown |-> TRUE]
    ELSE [S |-> [S EXCEPT
                   !.modalTarget =
                       [NoModal EXCEPT
                          !.created = TRUE,
                          !.header = <<createModalCloseButton(S.bootstrapVersion)>>],
                   !.counts.modalObjs = @ + 1,
                   !.counts.modalElems = @ + 1],
          thrown |-> FALSE]

createPanelTarget(S) ==
    [S EXCEPT !.panelTarget = [created |-> TRUE, content |-> <<>>],
              !.counts.panelObjs = @ + 1]

\* getTarget without the memo: a new target at every call.
getTarget_NoMemo(S, useModal) ==
    IF useModal THEN createModalTarget(S)
    ELSE [S |-> createPanelTarget(S), thrown |-> FALSE]

getTarget(S, useModal) ==
    IF useModal
    THEN (IF S.modalTarget.created THEN [S |-> S, thrown |-> FALSE]
          ELSE createModalTarget(S))
    ELSE (IF S.panelTarget.created THEN [S |-> S, thrown |-> FALSE]
          ELSE [S |-> createPanelTarget(S), thrown |-> FALSE])

\* clear that leaves the size classes on the dialog.
ModalClear_KeepSize(S, a) ==
    Trigger([Call(S, "modal", "clear") EXCEPT
                !.modalTarget.header = <<>>,
                !.modalTarget.body = <<>>,
                !.bind.modal = NoBind],
            "cleared", a)

\* clear that leaves the header as it is.
ModalClear_KeepHeader(S, a) ==
    Trigger([Call(S, "modal", "clear") EXCEPT
                !.modalTarget.body = <<>>,
                !.modalTarget.dialogCls = @ \ {"modal-sm", "modal-lg"},
                !.bind.modal = NoBind],
            "cleared", a)

ModalClear(S, a) ==
    Trigger([Call(S, "modal", "clear") EXCEPT
                !.modalTarget.header = <<>>,
                !.modalTarget.body = <<>>,
                !.modalTarget.dialogCls = @ \ {"modal-sm", "modal-lg"},
                !.bind.modal = NoBind],
            "cleared", a)

ModalFill(S, bodyContent, title, size, a) ==
    LET S1 == ModalClear(Call(S, "modal", "fill"), a)
        isBootstrap3 == S.bootstrapVersion = "3"
        button == <<createModalCloseButton(S.bootstrapVersion)>>
        titleHeader == IF Truthy(title) THEN <<[item |-> "h5", v |-> title]>>
                       ELSE <<>>
        sizeCls == IF size = "large" THEN {"modal-lg"}
                   ELSE IF size = "small" THEN {"modal-sm"} ELSE {}
    IN [S1 EXCEPT
          !.modalTarget.header =
              @ \o (IF isBootstrap3 THEN button ELSE <<>>) \o titleHeader
                \o (IF ~isBootstrap3 THEN button ELSE <<>>),
          !.modalTarget.dialogCls = @ \cup sizeCls,
          !.modalTarget.body = @ \o bodyContent]

ModalAppend(S, sel, a) == Call(S, "modal", "append")

\* $modal.modal('show') and $modal.modal('hide') are the styling library's:
\* hiding a shown modal makes the library fire hidden.bs.modal once its
\* transition has ended.
BsShow(S) == [S EXCEPT !.modalTarget.shown = TRUE]
BsHide(S) ==
    IF S.modalTarget.shown
    THEN [S EXCEPT !.modalTarget.shown = FALSE,
                   !.modalTarget.hiddenPending = @ + 1]
    ELSE S

\* show that makes the modal visible and tells no one.
ModalShow_NoEvent(S, sel, a) == BsShow(Call(S, "modal", "show"))

ModalShow(S, sel, a) == Trigger(BsShow(Call(S, "modal", "show")), "opened", a)

\* hide that announces closed before it has cleared.
ModalHide_ClosedFirst(S, a) ==
    LET S1 == Trigger(Call(S, "modal", "hide"), "closing", a)
        S2 == Trigger(BsHide(S1), "closed", a)
    IN ModalClear(S2, a)

ModalHide(S, a) ==
    LET S1 == Trigger(Call(S, "modal", "hide"), "closing", a)
        S2 == ModalClear(BsHide(S1), a)
    IN Trigger(S2, "closed", a)
(***************************************************************************)
(* The inline target (createPanelTarget).  The panel is the child "panel"  *)
(* of the container it was appended to.                                    *)
(***************************************************************************)
PanelParent(S) == {c \in Containers : "panel" \in Range(S.kids[c])}
\* The panel's parent keeps its classes.
PanelParentRemoveClass_Keeps(S) == S

\* $panel.parent().removeClass('in'); $panel.parent().removeClass('show')
PanelParentRemoveClass(S) ==
    [S EXCEPT !.ccls = [c \in Containers |->
                          IF c \in PanelParent(S) THEN S.ccls[c] \ {"in", "show"}
                          ELSE S.ccls[c]]]
\* An append that adds the node where it is asked to and leaves it where it
\* was.
DomAppend_NoMove(k, c, x) ==
    [d \in Containers |-> IF d = c THEN Append(k[d], x) ELSE k[d]]

\* DOM append: a node has one parent, so appending moves it.
DomAppend(k, c, x) ==
    [d \in Containers |->
        LET others == SelectSeq(k[d], LAMBDA y : y # x)
        IN IF d = c THEN Append(others, x) ELSE others]
\* $.contains(container, contained) takes DOM elements; given two jQuery
\* objects, as here, it finds no parentNode on the second and answers false.
Contains(S, c) == FALSE

PanelClear(S, a) ==
    Trigger([Call(S, "panel", "clear") EXCEPT !.panelTarget.content = <<>>,
                                             !.bind.panel = NoBind],
            "cleared", a)

PanelFill(S, bodyContent, title, size, a) ==
    [PanelClear(Call(S, "panel", "fill"), a) EXCEPT
        !.panelTarget.content = @ \o bodyContent]

\* append that leaves the container's other children in place.
PanelAppend_KeepChildren(S0, targetContainerSelector, a) ==
    LET S == Call(S0, "panel", "append")
        targetContainer == Resolve(targetContainerSelector)
    IN IF ~Truthy(targetContainerSelector) \/ Cardinality(targetContainer) # 1
       THEN ConsoleError(S, "Target element not found or ambiguous selector.")
       ELSE [PanelParentRemoveClass(S) EXCEPT
                !.kids = DomAppend(@, CHOOSE x \in targetContainer : TRUE, "panel")]

PanelAppend(S0, targetContainerSelector, a) ==
    LET S == Call(S0, "panel", "append")
        targetContainer == Resolve(targetContainerSelector)
    IN IF ~Truthy(targetContainerSelector)
       THEN ConsoleError(S, "Target element must be specified when modals are disabled.")
       ELSE IF Cardinality(targetContainer) # 1
       THEN ConsoleError(S, "Target element not found or ambiguous selector.")
       ELSE LET c == CHOOSE x \in targetContainer : TRUE
                S1 == PanelParentRemoveClass(S)
                S2 == [S1 EXCEPT !.kids[c] = SelectSeq(@, LAMBDA y : y = "panel")]
            IN IF ~Contains(S2, c)
               THEN [S2 EXCEPT !.kids = DomAppend(@, c, "panel")]
               ELSE S2

\* show that takes whatever the selector matches.
PanelShow_NoCheck(S0, targetContainerSelector, a) ==
    LET S == Call(S0, "panel", "show")
        targetContainer == Resolve(targetContainerSelector)
    IN Trigger([S EXCEPT !.ccls = [c \in Containers |->
                                     IF c \in targetContainer
                                     THEN S.ccls[c] \cup {"in", "show"}
                                     ELSE S.ccls[c]]],
               "opened", a)

PanelShow(S0, targetContainerSelector, a) ==
    LET S == Call(S0, "panel", "show")
        targetContainer == Resolve(targetContainerSelector)
    IN IF ~Truthy(targetContainerSelector)
       THEN ConsoleError(S, "Target element must be specified when modals are disabled.")
       ELSE IF Cardinality(targetContainer) # 1
       THEN ConsoleError(S, "Target element not found or ambiguous selector.")
       ELSE LET c == CHOOSE x \in targetContainer : TRUE
            IN Trigger([S EXCEPT !.ccls[c] = @ \cup {"in", "show"}], "opened", a)

\* hide that does not wait: it clears and announces closed at once.
PanelHide_ClearsAtOnce(S, a) ==
    LET S1 == Trigger(Call(S, "panel", "hide"), "closing", a)
    IN Trigger(PanelClear(PanelParentRemoveClass(S1), 0), "closed", a)

\* hide: the clear and the closed event wait for the timer.
PanelHide(S, a) ==
    LET S1 == Trigger(Call(S, "panel", "hide"), "closing", a)
    IN [PanelParentRemoveClass(S1) EXCEPT !.timers = Append(@, a)]

\* The two variants behind one interface.
Fill(S, t, bodyContent, title, size, a) ==
    IF t = "modal" THEN ModalFill(S, bodyContent, title, size, a)
    ELSE PanelFill(S, bodyContent, title, size, a)
\* append that does nothing for either variant.
TargetAppend_Nothing(S, t, sel, a) == Call(S, t, "append")

TargetAppend(S, t, sel, a) ==
    IF t = "modal" THEN ModalAppend(S, sel, a) ELSE PanelAppend(S, sel, a)
Show(S, t, sel, a) ==
    IF t = "modal" THEN ModalShow(S, sel, a) ELSE PanelShow(S, sel, a)
Hide(S, t, a) ==
    IF t = "modal" THEN ModalHide(S, a) ELSE PanelHide(S, a)
ContentOf(S, t) ==
    IF t = "modal" THEN S.modalTarget.body ELSE S.panelTarget.content

(***************************************************************************)
(* The response handler.                                                   *)
(***************************************************************************)
\* The message without the status code.
StatusMessage_TextOnly(response) ==
    <<Serialize(El("p", "", <<TextNode(response.statusText)>>))>>

\* $('<p>') with the text status: statusText.
StatusMessage(response) ==
    <<Serialize(El("p", "", <<TextNode(ToString(response.status) \o ": "
                                        \o response.statusText)>>))>>
\* A failure paragraph with nothing in it.
FailureMessage_Empty == <<Serialize(El("p", "", <<>>))>>

\* $('<p>The page could not be displayed.</p>')
FailureMessage ==
    <<Serialize(El("p", "", <<TextNode("The page could not be displayed.")>>))>>

\* Whether an element of the content is a form: tagName is 'form'.
IsForm(element) == element[1].tag = "form"
\* The submit handlers of openResponse: on the forms among the content's
\* top-level elements when there are any, and else delegated from every
\* top-level element to the forms below it.
\* Handlers that keep no settings of the interaction.
BindSubmit_NoSettings(S, t, bodyContent, settings) ==
    LET directFormChilds == SelectSeq(bodyContent, IsForm)
    IN [S EXCEPT !.bind[t] =
           [mode |-> IF Len(directFormChilds) > 0 THEN "direct" ELSE "delegated",
            target |-> t, settings |-> NoSettings]]

BindSubmit(S, t, bodyContent, settings) ==
    LET directFormChilds == SelectSeq(bodyContent, IsForm)
    IN [S EXCEPT !.bind[t] =
           [mode |-> IF Len(directFormChilds) > 0 THEN "direct" ELSE "delegated",
            target |-> t, settings |-> settings]]

openResponse(S, response, a) ==
    LET target == S.args[a].target
        settings == S.args[a].settings
        bodyContent == parseBody(response.responseText, settings.contentSelector)
    IN IF response.responseText = <<>>
       THEN LET S1 == ConsoleError(S, "The page could not be displayed (responseText was empty).")
                S2 == Fill(S1, target, StatusMessage(response),
                           settings.title, settings.size, a)
                S3 == TargetAppend(S2, target, settings.targetContainerSelector, a)
            IN Show(S3, target, settings.targetContainerSelector, a)
       ELSE IF bodyContent.undef
       THEN LET S1 == ConsoleError(S, "The page could not be displayed (no body content found).")
                S2 == Fill(S1, target, FailureMessage,
                           settings.title, settings.size, a)
                S3 == TargetAppend(S2, target, settings.targetContainerSelector, a)
            IN Show(S3, target, settings.targetContainerSelector, a)
       ELSE LET S1 == Fill(S, target, bodyContent.nodes,
                           settings.title, settings.size, a)
                S2 == IF settings.handleFormSubmit
                      THEN BindSubmit(S1, target, bodyContent.nodes, settings)
                      ELSE S1
                S3 == TargetAppend(S2, target, settings.targetContainerSelector, a)
                S4 == Trigger(S3, "ajax-content-loaded", a)
            IN Show(S4, target, settings.targetContainerSelector, a)

\* A request that aborts the requests before it.
Ajax_AbortEarlier(S, a, url, method) ==
    [S EXCEPT !.requests = {[a |-> a, url |-> url, method |-> method]},
              !.last.issued = Append(@, a),
              !.last.trace = Append(@, <<"request", a>>)]

\* $.ajax({url, method, ...}): the request is in flight until it completes.
Ajax(S, a, url, method) ==
    [S EXCEPT !.requests = @ \cup {[a |-> a, url |-> url, method |-> method]},
              !.last.issued = Append(@, a),
              !.last.trace = Append(@, <<"request", a>>)]

\* A submit handler that issues its request without announcing it.
handleAjaxSubmit_NoOpening(S0, form, target, settings) ==
    LET S == [S0 EXCEPT !.last.prevented = TRUE]
        url == IF Truthy(form.action) THEN form.action ELSE ""
        method == IF Truthy(form.method) THEN form.method ELSE "get"
        a == FreshArgs(S)
    IN IF ~Truthy(url)
       THEN [S |-> ConsoleError(S, "Form submit could not be ajax-ified, because the form action is empty."),
             ret |-> "false"]
       ELSE [S |-> Ajax(NewArgs(S, OpenArgs(url, target, settings)), a, url, method),
             ret |-> Undef]

\* A submit handler that does not look at the url it got.
handleAjaxSubmit_NoActionCheck(S0, form, target, settings) ==
    LET S == [S0 EXCEPT !.last.prevented = TRUE]
        url == IF Truthy(form.action) THEN form.action ELSE ""
        method == IF Truthy(form.method) THEN form.method ELSE "get"
        a == FreshArgs(S)
    IN [S |-> Ajax(Trigger(NewArgs(S, OpenArgs(url, target, settings)),
                           "opening", a),
                   a, url, method),
        ret |-> Undef]

\* Returns false (ret |-> "false") when the form has no action, and else
\* nothing.
handleAjaxSubmit(S0, form, target, settings) ==
    LET S == [S0 EXCEPT !.last.prevented = TRUE]
        url == IF Truthy(form.action) THEN form.action ELSE ""
        method == IF Truthy(form.method) THEN form.method ELSE "get"
        a == FreshArgs(S)
    IN IF ~Truthy(url)
       THEN [S |-> ConsoleError(S, "Form submit could not be ajax-ified, because the form action is empty."),
             ret |-> "false"]
       ELSE [S |-> Ajax(Trigger(NewArgs(S, OpenArgs(url, target, settings)),
                                "opening", a),
                        a, url, method),
             ret |-> Undef]

\* A handler that returns false has jQuery prevent the default and stop the
\* propagation of the event.
ReturnFalse(S) == [S EXCEPT !.last.prevented = TRUE, !.last.stopped = TRUE]

\* The handler without the test of the url: the request is issued with
\* whatever the attributes gave.
ajaxify_NoUrlCheck(S, type, el) ==
    LET isForm == el.tag = "FORM"
        settings == [title |-> el.title,
                     size |-> el.size,
                     contentSelector |-> el.contentSelector,
                     handleFormSubmit |-> el.handleFormSubmit,
                     targetContainerSelector |-> el.targetContainerSelector]
        useModal == ~Truthy(settings.targetContainerSelector)
        got == getTarget(S, useModal)
        target == IF useModal THEN "modal" ELSE "panel"
        url == IF Truthy(el.href) THEN el.href ELSE el.dataTarget
        a == FreshArgs(got.S)
        S1 == [got.S EXCEPT !.last.resolved = target]
    IN IF type = "click" /\ isForm THEN S
       ELSE IF got.thrown THEN [S EXCEPT !.last.threw = TRUE]
       ELSE IF type = "submit" /\ isForm
       THEN ReturnFalse(handleAjaxSubmit(S1, el, target, settings).S)
       ELSE ReturnFalse(Ajax(Trigger(NewArgs(S1, OpenArgs(url, target, settings)),
                                     "opening", a),
                             a, url, "get"))

\* The handler without the early return for clicks on forms.
ajaxify_NoFormSkip(S, type, el) ==
    LET isForm == el.tag = "FORM"
        settings == [title |-> el.title,
                     size |-> el.size,
                     contentSelector |-> el.contentSelector,
                     handleFormSubmit |-> el.handleFormSubmit,
                     targetContainerSelector |-> el.targetContainerSelector]
        useModal == ~Truthy(settings.targetContainerSelector)
        got == getTarget(S, useModal)
        target == IF useModal THEN "modal" ELSE "panel"
        url == IF Truthy(el.href) THEN el.href ELSE el.dataTarget
        a == FreshArgs(got.S)
        S1 == [got.S EXCEPT !.last.resolved = target]
    IN IF got.thrown THEN [S EXCEPT !.last.threw = TRUE]
       ELSE IF type = "submit" /\ isForm
       THEN ReturnFalse(handleAjaxSubmit(S1, el, target, settings).S)
       ELSE IF ~Truthy(url)
       THEN ReturnFalse(ConsoleError(S1, "Element cannot be ajaxified, because neither a href nor a data-target are specified."))
       ELSE ReturnFalse(Ajax(Trigger(NewArgs(S1, OpenArgs(url, target, settings)),
                                     "opening", a),
                             a, url, "get"))

\* The handler of clicks on .ajaxify and of submits of form.ajaxify.
ajaxify(S, type, el) ==
    LET isForm == el.tag = "FORM"
        settings == [title |-> el.title,
                     size |-> el.size,
                     contentSelector |-> el.contentSelector,
                     handleFormSubmit |-> el.handleFormSubmit,
                     targetContainerSelector |-> el.targetContainerSelector]
        useModal == ~Truthy(settings.targetContainerSelector)
        got == getTarget(S, useModal)
        target == IF useModal THEN "modal" ELSE "panel"
        url == IF Truthy(el.href) THEN el.href ELSE el.dataTarget
        a == FreshArgs(got.S)
        S1 == [got.S EXCEPT !.last.resolved = target]
    IN IF type = "click" /\ isForm THEN S
       ELSE IF got.thrown THEN [S EXCEPT !.last.threw = TRUE]
       ELSE IF type = "submit" /\ isForm
       THEN ReturnFalse(handleAjaxSubmit(S1, el, target, settings).S)
       ELSE IF ~Truthy(url)
       THEN ReturnFalse(ConsoleError(S1, "Element cannot be ajaxified, because neither a href nor a data-target are specified."))
       ELSE ReturnFalse(Ajax(Trigger(NewArgs(S1, OpenArgs(url, target, settings)),
                                     "opening", a),
                             a, url, "get"))
(***************************************************************************)
(* The elements of the page that carry the class ajaxify, the responses    *)
(* the server may give, and the environment.                               *)
(***************************************************************************)
Element(name, tag, loc) ==
    [name |-> name, tag |-> tag, loc |-> loc, href |-> Undef,
     dataTarget |-> Undef, title |-> Undef, size |-> Undef,
     contentSelector |-> Undef, handleFormSubmit |-> FALSE,
     targetContainerSelector |-> Undef, action |-> Undef, method |-> Undef]

linkModal ==
    [Element("linkModal", "A", "page") EXCEPT
        !.href = "/page", !.title = "Title", !.size = "large",
        !.handleFormSubmit = TRUE]
buttonModal ==
    [Element("buttonModal", "BUTTON", "page") EXCEPT
        !.dataTarget = "/other", !.size = "small"]
linkPanel ==
    [Element("linkPanel", "A", "page") EXCEPT
        !.href = "/page", !.title = "Ignored", !.handleFormSubmit = TRUE,
        !.targetContainerSelector = "#c1"]
linkPanel2 ==
    [Element("linkPanel2", "A", "page") EXCEPT
        !.href = "/part", !.contentSelector = ".sel",
        !.targetContainerSelector = "#c2"]
linkAmbiguous ==
    [Element("linkAmbiguous", "A", "page") EXCEPT
        !.href = "/page", !.targetContainerSelector = ".box"]
\* a container selector that matches no element of the page
linkMissing ==
    [Element("linkMissing", "A", "page") EXCEPT
        !.href = "/page", !.targetContainerSelector = "#gone"]
linkNoUrl == Element("linkNoUrl", "A", "page")
linkNoUrlPanel ==
    [Element("linkNoUrlPanel", "A", "page") EXCEPT !.targetContainerSelector = "#c2"]
\* The form of the README's example: it lives in the container that is to
\* receive the response.
formPanel ==
    [Element("formPanel", "FORM", "c1") EXCEPT
        !.action = "/send-form", !.method = "post", !.handleFormSubmit = TRUE,
        !.targetContainerSelector = "#c1"]
formNoAction == Element("formNoAction", "FORM", "page")

Triggers == {linkModal, buttonModal, linkPanel, linkPanel2, linkAmbiguous,
             linkMissing, linkNoUrl, linkNoUrlPanel, formPanel, formNoAction}

\* An element is there to be clicked while it is in the page.
Present(e) ==
    /\ e \in page
    /\ IF e.loc = "page" THEN TRUE ELSE e.name \in Range(kids[e.loc])


Form(action, method, cls, kids_) == Node("form", "", cls, action, method, kids_)
\* main holds a paragraph and a .sel division
PageMain ==
    Page(<<>>, TRUE,
         <<El("main", "", <<El("p", "a", <<>>),
                            Node("div", "", "sel", "", "", <<El("p", "s", <<>>)>>)>>)>>)
\* main holds a form: the form is a top-level element of the fragment
PageForm ==
    Page(<<>>, TRUE,
         <<El("main", "", <<Form("/step", "post", "", <<El("input", "f", <<>>)>>)>>)>>)
\* no main; a form nested in a division
PageNested ==
    Page(<<>>, TRUE,
         <<El("div", "w", <<Form("/next", "", "", <<>>)>>), TextNode("tail")>>)
\* no main; a form at the top level and another nested in a division
PageMixed ==
    Page(<<>>, TRUE,
         <<Form("/step", "post", "", <<>>),
           El("div", "w", <<Form("/next", "", "", <<>>)>>)>>)
\* main holds a form that carries the class ajaxify itself
PageAjaxForm ==
    Page(<<>>, TRUE,
         <<El("main", "", <<Form("/step", "post", "ajaxify", <<>>)>>)>>)
\* main holds a form without action that carries the class ajaxify
PageNoAction ==
    Page(<<>>, TRUE,
         <<El("main", "", <<Form("", "post", "ajaxify", <<El("input", "f", <<>>)>>)>>)>>)
\* markup without a body section
PageBare == Page(<<>>, FALSE, <<El("p", "a", <<>>)>>)

Ok(d) == [status |-> 200, statusText |-> "OK", responseText |-> PageText(d)]
NotFound == [status |-> 404, statusText |-> "Not Found", responseText |-> <<>>]

\* The pages the script is run in: the styling library loaded (if any), the
\* elements with the class ajaxify, and what the server answers.
Scenario(version, elements, responses) ==
    [version |-> version, page |-> elements, site |-> responses]
Scenarios ==
    {Scenario(v, {linkModal, buttonModal}, {Ok(PageMain), NotFound}) : v \in {"3", "5"}}
    \cup {Scenario("4", {linkModal}, {Ok(PageForm), Ok(PageNested)}),
          Scenario(Undef, {linkPanel, linkPanel2}, {Ok(PageMain), NotFound}),
          Scenario(Undef, {formPanel, linkAmbiguous}, {Ok(PageForm), NotFound}),
          Scenario("5", {linkModal, linkPanel}, {Ok(PageMain), Ok(PageBare)}),
          Scenario(Undef, {linkModal, linkNoUrl, formNoAction, linkPanel2},
                   {Ok(PageMain)}),
          Scenario("4", {linkNoUrl, linkNoUrlPanel, formNoAction, linkMissing},
                   {Ok(PageMain)}),
          Scenario("3", {linkPanel}, {Ok(PageMixed)}),
          Scenario("5", {linkPanel, buttonModal}, {Ok(PageAjaxForm)}),
          Scenario(Undef, {linkPanel}, {Ok(PageNoAction)})}

(***************************************************************************)
(* The state after the script has loaded.                                  *)
(***************************************************************************)
ExIdle ==
    /\ exPc = "idle"
    /\ exPage = PageBare
    /\ exSel = Undef
    /\ exOut = Undefined

SysInit(sc) ==
    /\ bootstrapVersion = sc.version
    /\ page = sc.page
    /\ site = sc.site
    /\ modalTarget = NoModal
    /\ panelTarget = [created |-> FALSE, content |-> <<>>]
    /\ kids = [c \in Containers |-> IF c = "c1" THEN <<"formPanel">> ELSE <<"old">>]
    /\ ccls = [c \in Containers |-> {}]
    /\ bind = [t \in Targets |-> NoBind]
    /\ args = <<>>
    /\ events = <<>>
    /\ requests = {}
    /\ timers = <<>>
    /\ counts = [modalObjs |-> 0, modalElems |-> 0, panelObjs |-> 0, opens |-> 0,
                 closes |-> [t \in Targets |-> 0],
                 closed |-> [t \in Targets |-> 0]]
    /\ last = NoLast

Init == (\E sc \in Scenarios : SysInit(sc)) /\ ExIdle

Opens(S) == S.counts.opens
ClosesBegun(S) == S.counts.closes["modal"] + S.counts.closes["panel"]

(***************************************************************************)
(* The callbacks.                                                          *)
(***************************************************************************)
BeginEvent(S, op, e) ==
    [Begin(S, op) EXCEPT !.last.el = e.name, !.last.tag = e.tag]

\* A click on an element with the class ajaxify.
Click(e) ==
    /\ Present(e)
    /\ Opens(Cur) < MaxOpens
    /\ Commit(ajaxify(BeginEvent(Cur, "click", e), "click", e))

\* The submit of a form with the class ajaxify.
Submit(e) ==
    /\ Present(e)
    /\ e.tag = "FORM"
    /\ Opens(Cur) < MaxOpens
    /\ Commit(ajaxify(BeginEvent(Cur, "submit", e), "submit", e))

\* The forms in a target's content: element k of the content, token i of it.
FormsIn(content) ==
    {p \in UNION {{<<k, i>> : i \in 1..Len(content[k])} : k \in 1..Len(content)} :
        /\ content[p[1]][p[2]].k = "open"
        /\ content[p[1]][p[2]].tag = "form"}
Attached(S, t) ==
    IF t = "modal" THEN S.modalTarget.created ELSE PanelParent(S) # {}
FormElement(tok) ==
    [Element("content", "FORM", "content") EXCEPT
        !.action = IF tok.action = "" THEN Undef ELSE tok.action,
        !.method = IF tok.method = "" THEN Undef ELSE tok.method]
\* Whether a submit handler of openResponse receives the form's submit.
Intercepted(S, t, p) ==
    \/ S.bind[t].mode = "direct" /\ p[2] = 1
    \/ S.bind[t].mode = "delegated" /\ p[2] > 1

\* The submit of a form inside a target's content: first the handlers bound
\* on the content, then, if the event gets there and the form carries the
\* class, the handler on the body.
SubmitContentForm(t, p) ==
    /\ Attached(Cur, t)
    /\ p \in FormsIn(ContentOf(Cur, t))
    /\ Opens(Cur) < MaxOpens
    /\ LET tok == ContentOf(Cur, t)[p[1]][p[2]]
           S0 == [Begin(Cur, "submitContent") EXCEPT
                     !.last.tag = "FORM",
                     !.last.form = [t |-> t, action |-> tok.action,
                                    method |-> tok.method,
                                    intercepted |-> Intercepted(Cur, t, p)]]
           r == IF Intercepted(S0, t, p)
                THEN handleAjaxSubmit(S0, FormElement(tok),
                                      S0.bind[t].target, S0.bind[t].settings)
                ELSE [S |-> S0, ret |-> Undef]
           S1 == IF r.ret = "false" THEN ReturnFalse(r.S) ELSE r.S
           S2 == IF tok.cls = "ajaxify" /\ ~S1.last.stopped
                 THEN ajaxify(S1, "submit", FormElement(tok))
                 ELSE S1
       IN Commit(S2)

\* The complete callback of a request, with the response the server gave.
Complete(r, response) ==
    /\ r \in requests
    /\ LET S0 == [Begin(Cur, "complete") EXCEPT
                     !.last.a = r.a, !.last.response = response,
                     !.requests = @ \ {r}]
       IN Commit(openResponse(S0, response, r.a))

\* ajaxify:close is triggered on a target's element.
CloseRequest(t) ==
    /\ IF t = "modal" THEN modalTarget.created ELSE panelTarget.created
    /\ ClosesBegun(Cur) < MaxCloses
    /\ LET a == FreshArgs(Begin(Cur, "close"))
           S0 == [NewArgs(Begin(Cur, "close"), CloseArgs(t)) EXCEPT
                     !.last.a = a, !.counts.closes[t] = @ + 1]
       IN Commit(Hide(S0, t, a))

\* The user dismisses the shown modal (its close button, the backdrop, the
\* escape key): the styling library hides it.
Dismiss ==
    /\ modalTarget.shown
    /\ ClosesBegun(Cur) < MaxCloses
    /\ Commit(BsHide([Begin(Cur, "dismiss") EXCEPT !.counts.closes["modal"] = @ + 1]))

\* The handler of hidden.bs.modal.
HiddenBsModal ==
    /\ modalTarget.hiddenPending > 0
    /\ LET a == FreshArgs(Begin(Cur, "hidden"))
           S0 == [NewArgs(Begin(Cur, "hidden"), CloseArgs("modal")) EXCEPT
                     !.last.a = a, !.modalTarget.hiddenPending = @ - 1]
           S1 == Trigger(S0, "closing", a)
           S2 == ModalClear(S1, a)
       IN Commit(Trigger(S2, "closed", a))

\* The timer callback of the panel's hide.  The delays are equal, so the
\* timers fire in the order they were set.
PanelTimer ==
    /\ timers # <<>>
    /\ LET a == Head(timers)
           S0 == [Begin(Cur, "timer") EXCEPT !.last.a = a, !.timers = Tail(@)]
       IN Commit(Trigger(PanelClear(S0, 0), "closed", a))

Next ==
    \/ \E e \in Triggers : Click(e)
    \/ \E e \in Triggers : Submit(e)
    \/ \E t \in Targets : \E p \in FormsIn(ContentOf(Cur, t)) : SubmitContentForm(t, p)
    \/ \E r \in requests : \E response \in site : Complete(r, response)
    \/ \E t \in Targets : CloseRequest(t)
    \/ Dismiss
    \/ HiddenBsModal
    \/ PanelTimer

Spec == Init /\ [][Next]_vars

\* The host's event loop runs a timer callback once its delay is over: a
\* pending timer of the panel's hide does not wait for ever.
\* Checked on a page where both targets are used and a form is submitted
\* into the inline target.
LiveScenarios ==
    {Scenario("5", {linkModal, formPanel}, {Ok(PageForm)})}
InitLive == (\E sc \in LiveScenarios : SysInit(sc)) /\ ExIdle
SpecLive == InitLive /\ [][Next]_vars /\ WF_vars(PanelTimer)
(***************************************************************************)
(* The extractor on its own: parseBody applied to the text of a page and a *)
(* content selector, for every page of a bounded shape.                    *)
(***************************************************************************)
SeqsUpTo(S, n) == UNION {[1..k -> S] : k \in 0..n}
ExLeaves == {El("p", "a", <<>>), TextNode("t")}
ExInner ==
    {Node(tc[1], "", tc[2], "", "", k) :
        tc \in {<<"main", "">>, <<"div", "sel">>}, k \in SeqsUpTo(ExLeaves, MaxKids)}
ExWrapped == {El("div", "w", <<n>>) : n \in ExLeaves \cup ExInner}
ExBodyNodes == ExLeaves \cup ExInner \cup ExWrapped
ExPages ==
    {Page(pre, hasBody, body) :
        pre \in {<<>>, <<El("head", "", <<El("title", "", <<>>)>>)>>},
        hasBody \in BOOLEAN,
        body \in SeqsUpTo(ExBodyNodes, MaxBodyKids)}
ExSelectors == {Undef, ".sel"}

InitExtract ==
    /\ SysInit(CHOOSE sc \in Scenarios : sc.page = {linkModal})
    /\ exPc = "ready"
    /\ exPage \in ExPages
    /\ exSel \in ExSelectors
    /\ exOut = Undefined

ExtractStep ==
    /\ exPc = "ready"
    /\ exPc' = "done"
    /\ exOut' = parseBody(PageText(exPage), exSel)
    /\ UNCHANGED <<exPage, exSel>>
    /\ UNCHANGED sysVars

NextExtract == ExtractStep

SpecExtract == InitExtract /\ [][NextExtract]_vars

\* What a page is, read off the document and not off its text: the
\* elements in document order, an element's element children, the markup of
\* a list of elements.
RECURSIVE Descendants(_)
Descendants(ns) ==
    IF ns = <<>> THEN <<>>
    ELSE IF Head(ns).tag = "#text" THEN Descendants(Tail(ns))
    ELSE <<Head(ns)>> \o Descendants(Head(ns).kids) \o Descendants(Tail(ns))
ElementKids(ns) == SelectSeq(ns, LAMBDA n : n.tag # "#text")
Markup(ns) == [i \in 1..Len(ns) |-> Serialize(ns[i])]
MainsIn(ns) == SelectSeq(Descendants(ns), LAMBDA n : n.tag = "main")
SelectedIn(ns, sel) ==
    SelectSeq(Descendants(ns), LAMBDA n : n.cls # "" /\ sel = "." \o n.cls)
(***************************************************************************)
(* The extractor's properties (under SpecExtract).                         *)
(***************************************************************************)
ExDone == exPc = "done"

\* C8, as stated: for any response that contains a main element, and no
\* content selector, the fragment is the children of main.
C8_AnyMainGivesItsChildren ==
    (ExDone /\ ~Truthy(exSel) /\ MainsIn(exPage.body) # <<>>)
    => \E i \in 1..Len(MainsIn(exPage.body)) :
          exOut = JQ(Markup(ElementKids(MainsIn(exPage.body)[i].kids)))

\* C8, amended: for any response whose body section holds exactly one main
\* element, and no content selector, the fragment is the element children of
\* that main.
C8_SingleMainGivesItsChildren ==
    (ExDone /\ ~Truthy(exSel) /\ exPage.hasBody /\ Len(MainsIn(exPage.body)) = 1)
    => exOut = JQ(Markup(ElementKids(MainsIn(exPage.body)[1].kids)))

\* A page whose one main has an element child and is not all of the body, so
\* that main's children and the body's differ.
C8_Witness ==
    /\ ExDone /\ ~Truthy(exSel) /\ exPage.hasBody
    /\ Len(MainsIn(exPage.body)) = 1
    /\ ElementKids(MainsIn(exPage.body)[1].kids) # <<>>
    /\ Len(ElementKids(exPage.body)) = 2
    /\ exOut.nodes # Markup(ElementKids(exPage.body))

\* C9, as stated: for any response with a body section in which neither
\* the given content selector matches an element nor a main element exists,
\* the fragment is the body's direct children.
C9_NoMatchGivesWholeBody ==
    (/\ ExDone /\ exPage.hasBody
     /\ SelectedIn(exPage.body, exSel) = <<>>
     /\ MainsIn(exPage.body) = <<>>)
    => exOut = JQ(Markup(ElementKids(exPage.body)))
(***************************************************************************)
(* The properties of the targets and of the response pipeline (under       *)
(* Spec).                                                                  *)
(***************************************************************************)
Completed == last.op = "complete"
LastArgs == args[last.a]
Count(seq, x) == Cardinality({i \in DOMAIN seq : seq[i] = x})
\* What openResponse is to put into the target for a response.
ExpectedContent(response, settings) ==
    IF response.responseText = <<>>
    THEN <<Serialize(El("p", "", <<TextNode(ToString(response.status) \o ": "
                                             \o response.statusText)>>))>>
    ELSE IF BodyMatch(response.responseText) = <<>>
    THEN <<Serialize(El("p", "", <<TextNode("The page could not be displayed.")>>))>>
    ELSE parseBody(response.responseText, settings.contentSelector).nodes
OneContainer(settings) ==
    Cardinality(Resolve(settings.targetContainerSelector)) = 1

\* C1: when a request for an inline target, whose selector matches exactly
\* one container, completes with a response that has a body section, the
\* events of the interaction are opening, content-loaded, opened, in that
\* order and once each, and the container then has the panel as its only
\* child, the panel holding the fragment.
C1_InlineOpenLifecycle ==
    (/\ Completed
     /\ LastArgs.target = "panel"
     /\ OneContainer(LastArgs.settings)
     /\ BodyMatch(last.response.responseText) # <<>>)
    => /\ SelectSeq(events[last.a],
                    LAMBDA e : e \in {"opening", "ajax-content-loaded", "opened"})
          = <<"opening", "ajax-content-loaded", "opened">>
       /\ \A c \in Resolve(LastArgs.settings.targetContainerSelector) :
             kids[c] = <<"panel">>
       /\ panelTarget.content
          = parseBody(last.response.responseText,
                      LastArgs.settings.contentSelector).nodes

C1_Witness ==
    /\ Completed
    /\ LastArgs.target = "panel"
    /\ LastArgs.settings.targetContainerSelector = "#c2"
    /\ BodyMatch(last.response.responseText) # <<>>
    /\ panelTarget.content # <<>>
    /\ kids["c2"] = <<"panel">>
    /\ events[last.a][Len(events[last.a])] = "opened"

\* C2, as stated: whenever a request completes with an empty response, the
\* target holds the message status: statusText, show was called, opened
\* fired and content-loaded did not.
C2_EmptyResponseAlwaysOpens ==
    (Completed /\ last.response.responseText = <<>>)
    => /\ ContentOf(Cur, LastArgs.target)
          = ExpectedContent(last.response, LastArgs.settings)
       /\ <<LastArgs.target, "show">> \in Range(last.calls)
       /\ Count(events[last.a], "opened") = 1
       /\ Count(events[last.a], "ajax-content-loaded") = 0

\* C2, amended: opened fires if the target is the overlay or the container
\* selector matches exactly one element, and else does not.
C2_EmptyResponseShowsStatus ==
    (Completed /\ last.response.responseText = <<>>)
    => /\ ContentOf(Cur, LastArgs.target)
          = ExpectedContent(last.response, LastArgs.settings)
       /\ <<LastArgs.target, "show">> \in Range(last.calls)
       /\ Count(events[last.a], "opened")
          = (IF LastArgs.target = "modal" \/ OneContainer(LastArgs.settings)
             THEN 1 ELSE 0)
       /\ Count(events[last.a], "ajax-content-loaded") = 0

C2_Witness ==
    /\ Completed
    /\ last.response.responseText = <<>>
    /\ LastArgs.target = "panel"
    /\ ~OneContainer(LastArgs.settings)
    /\ panelTarget.content # <<>>

\* C3, as stated: every close of a target empties its content and has
\* exactly one closed event fire: never more closed events than closes, as
\* many once nothing of a close is pending, and the content empty when
\* closed has fired.
ClosePending == timers # <<>> \/ modalTarget.hiddenPending > 0
C3_ClosedOncePerClose ==
    /\ \A t \in Targets : counts.closed[t] <= counts.closes[t]
    /\ ~ClosePending => \A t \in Targets : counts.closed[t] = counts.closes[t]
    /\ (last.op \in {"close", "hidden", "timer"} /\ "closed" \in Range(events[last.a]))
       => ContentOf(Cur, LastArgs.target) = <<>>

\* C4: at most one overlay target and one overlay element exist; the
\* overlay is not there before a trigger without a container selector asks
\* for it, and such a trigger gets the one there is.
C4_OneOverlay ==
    /\ counts.modalObjs <= 1
    /\ counts.modalElems = counts.modalObjs
    /\ modalTarget.created <=> counts.modalObjs = 1
    /\ last.resolved = "modal" => modalTarget.created
    /\ last.op = "init" => ~modalTarget.created
    /\ (\A e \in page : Truthy(e.targetContainerSelector)) => ~modalTarget.created

C4_Witness ==
    /\ last.op = "click"
    /\ last.resolved = "modal"
    /\ Cardinality({r \in requests : args[r.a].target = "modal"}) >= 2
    /\ counts.modalObjs = 1

\* C5: a fill leaves in the target exactly what this fill put there (the
\* body nodes, and for the overlay the close button, the title if given and
\* the class of the size asked for), having fired cleared once; a clear
\* leaves nothing.
ExpectedHeader(version, title) ==
    LET button == <<[item |-> "button",
                     v |-> IF version = "5" THEN "btn-close" ELSE "close"]>>
        h5 == IF Truthy(title) THEN <<[item |-> "h5", v |-> title]>> ELSE <<>>
    IN IF version = "3" THEN button \o h5 ELSE h5 \o button
ExpectedSizeClass(size) ==
    IF size = "large" THEN {"modal-lg"}
    ELSE IF size = "small" THEN {"modal-sm"} ELSE {}
C5_FillReplacesContent ==
    /\ Completed =>
          /\ ContentOf(Cur, LastArgs.target)
             = ExpectedContent(last.response, LastArgs.settings)
          /\ Count(events[last.a], "cleared") = 1
          /\ LastArgs.target = "modal" =>
                /\ modalTarget.header
                   = ExpectedHeader(bootstrapVersion, LastArgs.settings.title)
                /\ modalTarget.dialogCls = ExpectedSizeClass(LastArgs.settings.size)
    /\ (last.op \in {"close", "hidden"} /\ LastArgs.target = "modal") =>
          /\ modalTarget.header = <<>>
          /\ modalTarget.body = <<>>
          /\ modalTarget.dialogCls = {}
    /\ last.op = "timer" => panelTarget.content = <<>>

C5_Witness ==
    /\ Completed
    /\ LastArgs.target = "modal"
    /\ LastArgs.settings.size = "small"
    /\ counts.opens = 3
    /\ requests = {}
    /\ page = {linkModal, buttonModal}
    /\ modalTarget.body # <<>>

\* C6: no step takes a request out of flight but its own completion, and
\* every completion for the overlay fills it, leaving in it the content of
\* the response that has just completed, whatever else is in flight.
C6_LastCompletionWins ==
    [][/\ \A r \in requests :
             r \in requests' \/ (last'.op = "complete" /\ last'.a = r.a)
       /\ (last'.op = "complete" /\ args'[last'.a].target = "modal") =>
             /\ <<"modal", "fill">> \in Range(last'.calls)
             /\ modalTarget'.body
                = ExpectedContent(last'.response, args'[last'.a].settings)]_vars

C6_Witness ==
    /\ Completed
    /\ LastArgs.target = "modal"
    /\ modalTarget.body # <<>>
    /\ \E r \in requests : args[r.a].target = "modal"

\* C7: the submit of an intercepted form of a target's content issues a
\* request to the form's action with the form's method (get if it has
\* none), for the target that holds the form and with the settings of the
\* interaction that loaded the form; and the handlers a completion binds
\* carry that completion's target and settings.
C7_FormStepKeepsTargetAndSettings ==
    [][/\ (/\ last'.op = "submitContent"
           /\ last'.form.intercepted
           /\ last'.form.action # "") =>
             /\ last'.issued # <<>>
             /\ LET a == last'.issued[1]
                    t == last'.form.t
                IN /\ args'[a].url = last'.form.action
                   /\ args'[a].target = t
                   /\ args'[a].settings = bind[t].settings
                   /\ [a |-> a, url |-> last'.form.action,
                       method |-> IF last'.form.method = "" THEN "get"
                                  ELSE last'.form.method] \in requests'
       /\ (/\ last'.op = "complete"
           /\ bind'[args'[last'.a].target].mode # "none") =>
             /\ bind'[args'[last'.a].target].target = args'[last'.a].target
             /\ bind'[args'[last'.a].target].settings = args'[last'.a].settings]_vars

\* The response to a form step has come back into the target and has
\* brought a form that is intercepted in its turn.
C7_Witness ==
    /\ Completed
    /\ LastArgs.url \in {"/step", "/next"}
    /\ LastArgs.settings.targetContainerSelector = "#c1"
    /\ bind["panel"].mode # "none"
    /\ FormsIn(panelTarget.content) # {}

\* C10, as stated: every click on an element that is no form, and every
\* submit of a form, that the handler gets has its default prevented.
C10_DefaultAlwaysSuppressed ==
    (\/ last.op = "click" /\ last.tag # "FORM"
     \/ last.op = "submit")
    => last.prevented

\* C11: every request issued, by the handler of the triggers or by a form's
\* submit handler, has had exactly one opening event fired before it with
\* its args record, which holds the request's url; nothing else is fired
\* with that record while the request is in flight, so that opening is the
\* first event of the interaction and the only opening.
C11_OpeningBeforeRequest ==
    /\ \A r \in requests :
          /\ events[r.a] = <<"opening">>
          /\ args[r.a].kind = "open"
          /\ args[r.a].url = r.url
    /\ \A i \in DOMAIN last.trace :
          last.trace[i][1] = "request" =>
             /\ i > 1
             /\ last.trace[i - 1] = <<"opening", last.trace[i][2]>>
             /\ Count(last.trace, <<"opening", last.trace[i][2]>>) = 1
    /\ Completed =>
          /\ Head(events[last.a]) = "opening"
          /\ Count(events[last.a], "opening") = 1

\* The submit handler bound on a loaded form has issued a request while the
\* request of a click is still in flight.
C11_Witness ==
    /\ last.op = "submitContent"
    /\ last.issued # <<>>
    /\ Cardinality(requests) = 2

\* C12, as stated: at the completion of every request, on every branch of
\* openResponse and for both targets, exactly one opened event has fired
\* with the args of the request's opening.
C12_OpenedAfterEveryOpening ==
    Completed =>
       /\ Head(events[last.a]) = "opening"
       /\ Count(events[last.a], "opened") = 1

\* C12, amended: at the completion of a request, on every branch, opened has
\* fired once, and as the last event, with the args of the request's
\* opening if the target is the overlay or the container selector matches
\* exactly one element; and otherwise it has not fired.
C12_OpenedWhereShown ==
    Completed =>
       /\ Head(events[last.a]) = "opening"
       /\ IF LastArgs.target = "modal" \/ OneContainer(LastArgs.settings)
          THEN /\ Count(events[last.a], "opened") = 1
               /\ events[last.a][Len(events[last.a])] = "opened"
               /\ last.trace[Len(last.trace)] = <<"opened", last.a>>
          ELSE /\ Count(events[last.a], "opened") = 0
               /\ \A i \in DOMAIN last.trace : last.trace[i][1] # "opened"

\* A completion on the branch of a response without a body section, into
\* the inline target, with opened fired.
C12_Witness ==
    /\ Completed
    /\ last.response.responseText # <<>>
    /\ BodyMatch(last.response.responseText) = <<>>
    /\ LastArgs.target = "panel"
    /\ Count(events[last.a], "opened") = 1

\* The element of the page the last callback was for, and whether it gives
\* no url: neither href nor data-target.
ElementOf(name) == CHOOSE e \in page : e.name = name
NoUrlClick(l) ==
    /\ l.op = "click"
    /\ l.tag # "FORM"
    /\ \E e \in page : e.name = l.el /\ ~Truthy(e.href) /\ ~Truthy(e.dataTarget)
\* An aborted operation: an error logged, no event fired, no request
\* issued, and the content of both targets and the children of the
\* containers as they were.
Aborted ==
    /\ last'.log # <<>>
    /\ last'.trace = <<>>
    /\ last'.issued = <<>>
    /\ requests' = requests
    /\ modalTarget'.body = modalTarget.body
    /\ panelTarget'.content = panelTarget.content
    /\ kids' = kids

\* C13, as stated: a click on an element that is no form and has neither
\* href nor data-target is aborted with a logged error, and no exception
\* leaves the handler.
C13_NoUrlAborts ==
    [][NoUrlClick(last') => (Aborted /\ ~last'.threw)]_vars

\* C13, amended: so it is when the target can be resolved: the element has
\* a container selector, or the version of the styling library can be
\* identified; the default of the click is then prevented as well.
C13_NoUrlAbortsWhenTargetResolves ==
    [][(/\ NoUrlClick(last')
        /\ \/ Truthy(ElementOf(last'.el).targetContainerSelector)
           \/ Truthy(bootstrapVersion))
       => (Aborted /\ ~last'.threw /\ last'.prevented
           /\ last'.log = <<"Element cannot be ajaxified, because neither a href nor a data-target are specified.">>)]_vars

\* A click without url while a target has content: there is something to
\* leave unchanged.
C13_Witness ==
    /\ NoUrlClick(last)
    /\ last.log # <<>>
    /\ ~last.threw
    /\ panelTarget.content # <<>>

C15_NoBodyShowsFailure ==
    (/\ Completed
     /\ last.response.responseText # <<>>
     /\ BodyMatch(last.response.responseText) = <<>>)
    => /\ ContentOf(Cur, LastArgs.target)
          = <<Serialize(El("p", "", <<TextNode("The page could not be displayed.")>>))>>
       /\ SelectSeq(last.calls, LAMBDA c : c[2] \in {"fill", "append", "show"})
          = <<(<<LastArgs.target, "fill">>), (<<LastArgs.target, "append">>),
              (<<LastArgs.target, "show">>)>>
       /\ last.log # <<>>
       /\ Head(last.log) = "The page could not be displayed (no body content found)."
       /\ Count(events[last.a], "ajax-content-loaded") = 0
       /\ \A i \in DOMAIN last.trace : last.trace[i][1] # "ajax-content-loaded"

\* Such a completion into the overlay, which is then shown.
C15_Witness ==
    /\ Completed
    /\ last.response.responseText # <<>>
    /\ BodyMatch(last.response.responseText) = <<>>
    /\ LastArgs.target = "modal"
    /\ modalTarget.shown
    /\ modalTarget.body # <<>>

\* A click or submit the handler does not return from at once.
HandledTrigger ==
    /\ last.op \in {"click", "submit"}
    /\ ~(last.op = "click" /\ last.tag = "FORM")

\* C16: while the version of the styling library cannot be identified, a
\* click or submit that needs the overlay throws, fires no event, issues no
\* request and logs nothing; no overlay target is memoized, no overlay
\* element is in the page and no interaction has the overlay as its
\* target, however many such triggers there were; and a trigger with a
\* container selector does not throw and, having a url, issues its request.
C16_NoVersionNoOverlay ==
    ~Truthy(bootstrapVersion) =>
       /\ ~modalTarget.created
       /\ counts.modalObjs = 0
       /\ counts.modalElems = 0
       /\ \A a \in DOMAIN args : args[a].target = "panel"
       /\ HandledTrigger =>
             IF Truthy(ElementOf(last.el).targetContainerSelector)
             THEN /\ ~last.threw
                  /\ last.resolved = "panel"
                  /\ (Truthy(ElementOf(last.el).href) \/ Truthy(ElementOf(last.el).action))
                        => last.issued # <<>>
             ELSE /\ last.threw
                  /\ last.trace = <<>>
                  /\ last.issued = <<>>
                  /\ last.log = <<>>

\* An overlay trigger has thrown while the request of an inline trigger is
\* in flight and the inline target holds the content of an earlier one.
C16_Witness ==
    /\ ~Truthy(bootstrapVersion)
    /\ last.op = "click"
    /\ last.threw
    /\ requests # {}
    /\ panelTarget.content # <<>>

\* C17: a close request on a target's element calls hide on the target;
\* closing fires first, then cleared, then closed, and the target's content
\* is empty when closed has fired.  The overlay does it all in the handler
\* of the request; the inline target fires closing in the handler and
\* cleared and closed in the timer callback hide has set.
C17_CloseRequestHides ==
    /\ (last.op = "close" /\ LastArgs.target = "modal") =>
          /\ <<"modal", "hide">> \in Range(last.calls)
          /\ last.trace = <<(<<"closing", last.a>>), (<<"cleared", last.a>>),
                            (<<"closed", last.a>>)>>
          /\ modalTarget.body = <<>>
          /\ modalTarget.header = <<>>
          /\ ~modalTarget.shown
    /\ (last.op = "close" /\ LastArgs.target = "panel") =>
          /\ <<"panel", "hide">> \in Range(last.calls)
          /\ last.trace = <<(<<"closing", last.a>>)>>
          /\ last.a \in Range(timers)
          /\ \A c \in PanelParent(Cur) : ccls[c] \cap {"in", "show"} = {}
    /\ last.op = "timer" =>
          /\ events[last.a] = <<"closing", "closed">>
          /\ Len(last.trace) = 2
          /\ last.trace[1][1] = "cleared"
          /\ last.trace[2] = <<"closed", last.a>>
          /\ panelTarget.content = <<>>

\* The timer of a hide of the inline target has fired, the target having
\* had content in a container.
C17_Witness ==
    /\ last.op = "timer"
    /\ PanelParent(Cur) # {}
    /\ counts.closed["panel"] = 1
    /\ counts.opens >= 1

\* C18, as stated: every lifecycle event a callback fires carries an args
\* record, and the events of a completion all carry the record made when
\* the interaction began, with its url, target and settings.
C18_EveryEventCarriesArgs ==
    /\ last.undefEvents = <<>>
    /\ \A i \in DOMAIN last.trace :
          last.trace[i][1] # "request" => last.trace[i][2] \in DOMAIN args
    /\ Completed =>
          /\ LastArgs.kind = "open"
          /\ \A i \in DOMAIN last.trace : last.trace[i][2] = last.a

\* C19, as stated: after a completion on the success path, if the flag
\* handleFormSubmit is set every form of the target's content, at the top
\* level of the fragment or nested, has a submit handler of openResponse
\* that receives its submit, and if the flag is unset none has.
C19_EveryFormIntercepted ==
    (/\ Completed
     /\ last.response.responseText # <<>>
     /\ BodyMatch(last.response.responseText) # <<>>)
    => \A p \in FormsIn(ContentOf(Cur, LastArgs.target)) :
          Intercepted(Cur, LastArgs.target, p) <=> LastArgs.settings.handleFormSubmit

\* C20: after the completion of a request for the inline target whose
\* selector matches exactly one container, on any branch of openResponse,
\* that container's children are the content node and nothing else, the
\* form that lived in the container is gone, and the content node is in no
\* other container.
C20_ContainerHoldsOnlyContentNode ==
    (/\ Completed
     /\ LastArgs.target = "panel"
     /\ OneContainer(LastArgs.settings))
    => LET c == CHOOSE x \in Resolve(LastArgs.settings.targetContainerSelector) : TRUE
       IN /\ kids[c] = <<"panel">>
          /\ Count(kids[c], "panel") = 1
          /\ "formPanel" \notin Range(kids[c])
          /\ \A d \in Containers \ {c} : "panel" \notin Range(kids[d])
          /\ PanelParent(Cur) = {c}

\* The response to the submit of the form that lived in the container has
\* taken the form's place.
C20_Witness ==
    /\ Completed
    /\ LastArgs.url = "/send-form"
    /\ kids["c1"] = <<"panel">>
    /\ panelTarget.content # <<>>
    /\ formPanel \in page

\* C21: the hide of the inline target fires closing and takes the open
\* classes from the container at once, and leaves the content and fires no
\* closed; as long as the timer of a hide is pending, no closed has fired
\* for that hide; the timer callback empties the content and fires closed;
\* and every hide gets its timer callback in the end.
C21_HideDefersClear ==
    /\ [][(last'.op = "close" /\ args'[last'.a].target = "panel") =>
             /\ events'[last'.a] = <<"closing">>
             /\ panelTarget'.content = panelTarget.content
             /\ counts'.closed["panel"] = counts.closed["panel"]
             /\ \A c \in PanelParent(Cur) : ccls'[c] \cap {"in", "show"} = {}
             /\ timers' = Append(timers, last'.a)]_vars
    /\ [](\A i \in DOMAIN timers : events[timers[i]] = <<"closing">>)
    /\ [][last'.op = "timer" =>
             /\ timers # <<>>
             /\ last'.a = Head(timers)
             /\ panelTarget'.content = <<>>
             /\ events'[last'.a] = <<"closing", "closed">>
             /\ counts'.closed["panel"] = counts.closed["panel"] + 1]_vars
    /\ \A n \in 1..MaxCloses :
          (counts.closes["panel"] >= n) ~> (counts.closed["panel"] >= n)

\* The inline target has been hidden with content in a container, and the
\* timer has not fired yet: the content is still there.
C21_Witness ==
    /\ last.op = "close"
    /\ LastArgs.target = "panel"
    /\ timers # <<>>
    /\ panelTarget.content # <<>>
    /\ PanelParent(Cur) # {}

\* C22: a click on a form with the class ajaxify does nothing: no target
\* is resolved or constructed, no event fires, no request is issued,
\* nothing is logged or thrown, and the targets, the containers and the
\* requests in flight are as they were; the submit of such a form, with an
\* action and a target that resolves, issues one request.
C22_ClickOnFormIsSkipped ==
    [][/\ (last'.op = "click" /\ last'.tag = "FORM") =>
             /\ last'.resolved = Undef
             /\ last'.trace = <<>>
             /\ last'.issued = <<>>
             /\ last'.log = <<>>
             /\ ~last'.threw
             /\ modalTarget' = modalTarget
             /\ panelTarget' = panelTarget
             /\ counts' = counts
             /\ requests' = requests
             /\ kids' = kids
             /\ ccls' = ccls
       /\ (last'.op = "submit" /\ last'.el = "formPanel") =>
             /\ last'.resolved = "panel"
             /\ Len(last'.issued) = 1
             /\ last'.trace = <<(<<"opening", last'.issued[1]>>),
                                (<<"request", last'.issued[1]>>)>>]_vars

\* A click on the form of the page before any target exists.
C22_Witness ==
    /\ last.op = "click"
    /\ last.tag = "FORM"
    /\ last.el = "formPanel"
    /\ ~panelTarget.created
    /\ counts.opens = 0

\* C23, as stated: the content a completion has filled into the inline
\* target while the timer of an earlier hide was pending is still there
\* after that timer's callback: only a later fill or a later close request
\* takes it away.
C23_ContentAfterCloseIsRetained ==
    [][(/\ last.op = "complete"
        /\ args[last.a].target = "panel"
        /\ timers # <<>>
        /\ last'.op = "timer")
       => panelTarget'.content = panelTarget.content]_vars

\* C24, as stated: the submit of a form the library handles, be it a form
\* of the page with the class ajaxify, a form intercepted inside a loaded
\* fragment, or a form that is both, issues one request and fires one
\* opening event: never more than one of each, as many openings as
\* requests, and one of each when the form has an action and a submit
\* handler of openResponse receives the submit.
C24_OneRequestPerSubmit ==
    last.op \in {"submit", "submitContent"} =>
       /\ Len(last.issued) <= 1
       /\ Cardinality({i \in DOMAIN last.trace : last.trace[i][1] = "opening"})
          = Len(last.issued)
       /\ (/\ last.op = "submitContent"
           /\ last.form.intercepted
           /\ last.form.action # "") => Len(last.issued) = 1

\* Whether content-loaded has fired for the interaction of the completion.
ContentLoaded == Completed /\ "ajax-content-loaded" \in Range(events[last.a])
\* The target's content is in the page: the overlay element is in the body;
\* the content node is the child of the one container the selector names.
AttachedWhereNamed ==
    IF LastArgs.target = "modal"
    THEN modalTarget.created /\ counts.modalElems = 1
    ELSE /\ OneContainer(LastArgs.settings)
         /\ PanelParent(Cur) = Resolve(LastArgs.settings.targetContainerSelector)

OpenContainers == {c \in Containers : ccls[c] \cap {"in", "show"} # {}}
\* The step is the completion of an inline interaction whose append finds
\* its one container.
SuccessfulAppend ==
    /\ last'.op = "complete"
    /\ args'[last'.a].target = "panel"
    /\ OneContainer(args'[last'.a].settings)

\* C26: the inline content node is a child of at most one container, the
\* container of the most recent successful append (the node changes its
\* container in such appends only, and is then in the container named);
\* only the node's container carries the open state, so at most one does; an
\* append to a second container takes the node out of the first and
\* takes the open state off the first.
C26_OnePanelOneOpenContainer ==
    /\ [](/\ Cardinality(PanelParent(Cur)) <= 1
          /\ \A c \in Containers : Count(kids[c], "panel") <= 1
          /\ OpenContainers \subseteq PanelParent(Cur)
          /\ Cardinality(OpenContainers) <= 1)
    /\ [][/\ PanelParent(Cur)' # PanelParent(Cur) => SuccessfulAppend
          /\ SuccessfulAppend =>
                /\ PanelParent(Cur)' = Resolve(args'[last'.a].settings.targetContainerSelector)
                /\ \A c \in PanelParent(Cur) \ PanelParent(Cur)' :
                      /\ Count(kids'[c], "panel") = 0
                      /\ c \notin OpenContainers']_vars

\* The node, once in #c1 (whose former children that append removed), is
\* now in #c2, which is open, and #c1 is not.
C26_Witness ==
    /\ Completed
    /\ PanelParent(Cur) = {"c2"}
    /\ OpenContainers = {"c2"}
    /\ kids["c1"] = <<>>

\* The close buttons and the titles in the overlay's header, and the size
\* classes on its dialog.
HeaderButtons == {i \in DOMAIN modalTarget.header : modalTarget.header[i].item = "button"}
HeaderTitles == {i \in DOMAIN modalTarget.header : modalTarget.header[i].item = "h5"}
SizeClasses == modalTarget.dialogCls \cap {"modal-sm", "modal-lg"}

\* C27: the overlay's header never holds more than one close button and its
\* dialog never more than one size class; after a completion has filled the
\* overlay the header holds one close button (first for version 3, last
\* otherwise), the title iff one was given, and the dialog the class of the
\* size asked for, none for the default; after a clear (a close request, or
\* the library's hidden event) it holds no button, no title, no size class.
C27_OverlayHeaderAndSize ==
    /\ Cardinality(HeaderButtons) <= 1
    /\ Cardinality(SizeClasses) <= 1
    /\ (Completed /\ LastArgs.target = "modal") =>
          /\ Cardinality(HeaderButtons) = 1
          /\ HeaderButtons = {IF bootstrapVersion = "3" THEN 1
                              ELSE Len(modalTarget.header)}
          /\ Cardinality(HeaderTitles)
             = (IF Truthy(LastArgs.settings.title) THEN 1 ELSE 0)
          /\ \A i \in HeaderTitles : modalTarget.header[i].v = LastArgs.settings.title
          /\ Len(modalTarget.header)
             = Cardinality(HeaderButtons) + Cardinality(HeaderTitles)
          /\ SizeClasses = (IF LastArgs.settings.size = "large" THEN {"modal-lg"}
                            ELSE IF LastArgs.settings.size = "small"
                            THEN {"modal-sm"} ELSE {})
    /\ (last.op \in {"close", "hidden"} /\ LastArgs.target = "modal") =>
          /\ modalTarget.header = <<>>
          /\ SizeClasses = {}

\* Version 3, the overlay filled over an earlier fill: button, then title,
\* on a large dialog.
C27_Witness ==
    /\ Completed
    /\ LastArgs.target = "modal"
    /\ bootstrapVersion = "3"
    /\ counts.opens >= 2
    /\ Len(modalTarget.header) = 2
    /\ modalTarget.header[2].item = "h5"
    /\ SizeClasses = {"modal-lg"}

\* The callback l describes is the submit of a handled form without action:
\* a form of the page with the class ajaxify, or a form of a target's
\* content that a submit handler of openResponse receives.
NoActionSubmit(l) ==
    \/ /\ l.op = "submit"
       /\ \E e \in page : e.name = l.el /\ ~Truthy(e.action)
    \/ /\ l.op = "submitContent"
       /\ l.form.intercepted
       /\ l.form.action = ""
\* No event, no request, and the targets and containers as they were.
NothingOpened ==
    /\ last'.trace = <<>>
    /\ last'.issued = <<>>
    /\ requests' = requests
    /\ modalTarget'.body = modalTarget.body
    /\ panelTarget'.content = panelTarget.content
    /\ bind' = bind
    /\ kids' = kids
    /\ ccls' = ccls

====
